---------------------------- MODULE Spec2Model ----------------------------
(***************************************************************************)
(* Model of Tool/mqtt_tester.py (Tasmota testing & provisioning tool).     *)
(*                                                                         *)
(* Five state machines share this module, one specification each:          *)
(*   SpecValidator  validate_sensor_data applied to bounded payloads       *)
(*   SpecMqtt       validate_mqtt_sensor: the consume loop and the paho    *)
(*                  network thread's callbacks                             *)
(*   SpecProv       provision_via_http and provision_via_serial            *)
(*   SpecScan       scan_network: the probe tasks and the connector limit  *)
(*   Spec/FairSpec  main(): the three phases of the orchestrator           *)
(*                                                                         *)
(* Floats are fixed-point integers in thousandths (22.5 is 22500).         *)
(***************************************************************************)
EXTENDS Integers, Sequences, FiniteSets, TLC

VARIABLES
  \* ---- validate_sensor_data (SpecValidator)
  v_payload,      \* the payload argument
  v_sensor,       \* the sensor_name argument
  v_result        \* NoResult, or what the call produced

VARIABLES
  \* ---- validate_mqtt_sensor (SpecMqtt)
  m_pc,           \* "off", "start" (before client.connect), "loop" (at the
                  \* while condition, line 218), "done" (returned)
  m_budget,       \* args.mqtt_wait_sec, whole seconds
  m_elapsed,      \* time.time() - t0, whole seconds
  msg_queue,      \* the queue.Queue of decoded message texts
  m_errors,       \* the errors list
  m_conn,         \* the network thread: "off", "pending" (CONNECT sent),
                  \* "subscribed" (rc = 0), "refused" (rc # 0), "stopped"
  m_connects,     \* on_connect calls so far
  m_published,    \* messages the broker has delivered so far
  m_inspected,    \* history: the texts msg_queue.get returned, in order
  m_gets,         \* history: calls of msg_queue.get so far
  m_link,         \* the client's broker connection: "none" (never made),
                  \* "open", "disconnected" (client.disconnect), "dropped"
                  \* (socket closed when the client object is collected)
  m_result        \* NoMqttResult, or the MqttValidationResult returned

VARIABLES
  \* ---- provision_via_http, provision_via_serial (SpecProv)
  p_pc,           \* "off", "start", "send" (serial: port open, before the
                  \* next send), "done" (returned)
  p_method,       \* "http" or "serial"
  p_args,         \* args: wifi_ssid, wifi_password, mqtt_user, mqtt_password
  p_port,         \* the serial port handle: "closed" or "open"
  p_i,            \* serial: index of the next send call
  p_cmds,         \* serial: the cmds list
  p_resps,        \* serial: the keys of the resps dict
  p_fault,        \* history: what the device or link did ([kind, at, status])
  p_result        \* NoProvResult, or the ProvisionResult returned

VARIABLES
  \* ---- main (Spec, FairSpec)
  o_pc,           \* "off", "start", "locate", "probe" (inside the locator's
                  \* with block), "serial_prov", "http_prov",
                  \* "validate", "report", "done"
  o_args,         \* args: provision_via, target_ip, cidr
  o_ports,        \* serial locator: the ports not yet probed
  o_open,         \* serial locator: "closed", or the port its with block
                  \* has open
  o_waited,       \* history: seconds main has slept in its settle waits
  found_port,     \* "" (None) or the port that answered
  devices,        \* the devices list (DeviceInfo records)
  o_i,            \* index of the current device in the running for loop
  prov_results,   \* dict: port or address -> ProvisionResult
  mqtt_results,   \* dict: address -> MqttValidationResult
  o_skipped,      \* history: addresses of the "Skipping ..." console lines
  o_validated,    \* history: the (address, topic) validate_mqtt_sensor got
  final_report    \* NoReport, or the report written and printed

VARIABLES
  \* ---- scan_network (SpecScan)
  s_pc,           \* "off", "start", "gather" (awaiting the tasks), "returned"
  s_n,            \* the number of addresses network.hosts() gives
  s_limit,        \* concurrency: the limit of the TCPConnector
  s_task,         \* per address: "waiting" (for a connection), "inflight"
                  \* (holds one), "settled" (the coroutine returned)
  s_answer,       \* history, per address: what its probe met
  s_ret,          \* per address: what _probe_ip returned, <<>> for None
  s_result        \* the list scan_network returned

vvars == <<v_payload, v_sensor, v_result>>
ovars == <<o_pc, o_args, o_ports, o_open, o_waited, found_port, devices, o_i,
           prov_results, mqtt_results, o_skipped, o_validated, final_report>>
svars == <<s_pc, s_n, s_limit, s_task, s_answer, s_ret, s_result>>
pvars == <<p_pc, p_method, p_args, p_port, p_i, p_cmds, p_resps, p_fault, p_result>>
mvars == <<m_pc, m_budget, m_elapsed, msg_queue, m_errors, m_conn, m_connects,
           m_published, m_inspected, m_gets, m_link, m_result>>
vars == <<vvars, mvars, pvars, ovars, svars>>

\* What the actions of one machine leave alone.
notV == <<mvars, pvars, ovars, svars>>
notM == <<vvars, pvars, ovars, svars>>
notP == <<vvars, mvars, ovars, svars>>
notO == <<vvars, mvars, svars>>
notS == <<vvars, mvars, pvars, ovars>>

NoResult == [raised |-> FALSE, exc |-> "not-called", errs |-> <<>>]

(***************************************************************************)
(* JSON values as json.loads produces them.  Every scalar has the same     *)
(* record shape so that values of different kinds can be compared.         *)
(***************************************************************************)
JNum(n)  == [t |-> "num",  n |-> n, s |-> ""]    \* int or float, thousandths
JNaN     == [t |-> "nan",  n |-> 0, s |-> ""]    \* json.loads accepts NaN
JBig     == [t |-> "big",  n |-> 0, s |-> ""]    \* an int too large for float()
JStr(s)  == [t |-> "str",  n |-> 0, s |-> s]
JBool(b) == [t |-> "bool", n |-> IF b THEN 1 ELSE 0, s |-> ""]
JNull    == [t |-> "null", n |-> 0, s |-> ""]    \* Python None
JList    == [t |-> "list", n |-> 0, s |-> ""]    \* a list or nested object

\* dict.get(key): the value, or None when the key is absent.
PyGet(d, key) == IF key \in DOMAIN d THEN d[key] ELSE JNull

(***************************************************************************)
(* float(val), lines 98-103.  ok: a float came back (m thousandths, or     *)
(* nan); otherwise exc names the exception raised.                         *)
(***************************************************************************)
FloatOk(m)   == [ok |-> TRUE,  nan |-> FALSE, m |-> m, exc |-> ""]
FloatNaN     == [ok |-> TRUE,  nan |-> TRUE,  m |-> 0, exc |-> ""]
FloatErr(e)  == [ok |-> FALSE, nan |-> FALSE, m |-> 0, exc |-> e]

\* float() of a string, on the strings the model uses.
StrToFloat(s) ==
  CASE s = "22.5" -> FloatOk(22500)
    [] s = "0"    -> FloatOk(0)
    [] s = "nan"  -> FloatNaN
    [] OTHER      -> FloatErr("ValueError")

PyFloat(val) ==
  CASE val.t = "num"  -> FloatOk(val.n)
    [] val.t = "nan"  -> FloatNaN
    [] val.t = "bool" -> FloatOk(val.n * 1000)
    [] val.t = "str"  -> StrToFloat(val.s)
    [] val.t = "big"  -> FloatErr("OverflowError")
    [] OTHER          -> FloatErr("TypeError")

\* val == 0.0 in Python: 0, 0.0, -0.0 and False are equal to 0.0.
EqZero(val) == val.t \in {"num", "bool"} /\ val.n = 0

(***************************************************************************)
(* limits, lines 87-91, in iteration order.                                *)
(***************************************************************************)
TempMin  == 10000
TempMax  == 85000
HumMin   == 0
HumMax   == 100000
PresMin  == 700000
PresMax  == 1150000

LimitKeys == <<"Temperature", "Humidity", "Pressure">>
limits == [Temperature |-> <<TempMin, TempMax>>,
           Humidity    |-> <<HumMin, HumMax>>,
           Pressure    |-> <<PresMin, PresMax>>]

\* One error string; the fields are what the f-string interpolates.
Err(e, key, m, nan) == [e |-> e, key |-> key, m |-> m, nan |-> nan]

\* Faulty variant: the bounds themselves rejected.
InRangeExclusive(f, min_v, max_v) == ~f.nan /\ min_v < f.m /\ f.m < max_v
\* min_v <= num_val <= max_v, line 100 (every comparison with nan is False).
InRange(f, min_v, max_v) == ~f.nan /\ min_v <= f.m /\ f.m <= max_v

(***************************************************************************)
(* The body of the for loop, lines 93-103, for one key: the errors it      *)
(* appends, or the exception float() raised that the except clause does    *)
(* not catch.                                                              *)
(***************************************************************************)
CheckKey(s, key) ==
  LET val == PyGet(s, key)
      f   == PyFloat(val)
      lim == limits[key]
  IN  IF val.t = "null"
        THEN [raised |-> FALSE, exc |-> "", errs |-> <<Err("missing", key, 0, FALSE)>>]
      ELSE IF f.ok
        THEN [raised |-> FALSE, exc |-> "",
              errs |-> IF InRange(f, lim[1], lim[2]) THEN <<>>
                       ELSE <<Err("out_of_range", key, f.m, f.nan)>>]
      ELSE IF f.exc \in {"ValueError", "TypeError"}
        THEN [raised |-> FALSE, exc |-> "", errs |-> <<Err("not_a_number", key, 0, FALSE)>>]
      ELSE [raised |-> TRUE, exc |-> f.exc, errs |-> <<>>]

\* The suspicious-reading rule, lines 105-106.
Suspicious(s) == EqZero(PyGet(s, "Temperature")) /\ EqZero(PyGet(s, "Humidity"))

RECURSIVE CheckKeys(_, _, _)
CheckKeys(s, i, errs) ==
  IF i > Len(LimitKeys) THEN [raised |-> FALSE, exc |-> "", errs |-> errs]
  ELSE LET r == CheckKey(s, LimitKeys[i])
       IN  IF r.raised THEN r ELSE CheckKeys(s, i + 1, errs \o r.errs)

(***************************************************************************)
(* A payload is what json.loads returned: [k |-> "dict", d |-> blocks] or  *)
(* a non-dict ([k |-> "list"/"str"/"scalar", has |-> whether               *)
(* `sensor_name in payload` is true of it]).  A block is                   *)
(* [isdict |-> TRUE, d |-> fields] or [isdict |-> FALSE].                  *)
(***************************************************************************)
DictPayload(d)      == [k |-> "dict", d |-> d, has |-> FALSE]
OtherPayload(k, h)  == [k |-> k, d |-> <<>>, has |-> h]
DictBlock(fields)   == [isdict |-> TRUE, d |-> fields]
ScalarBlock         == [isdict |-> FALSE, d |-> <<>>]

\* `sensor_name not in payload`, line 82: raises TypeError on a number,
\* None or a bool.
Contains(payload, sensor_name) ==
  IF payload.k = "dict" THEN sensor_name \in DOMAIN payload.d ELSE payload.has

validate_sensor_data(payload, sensor_name) ==
  IF payload.k = "scalar"
    THEN [raised |-> TRUE, exc |-> "TypeError", errs |-> <<>>]
  ELSE IF ~Contains(payload, sensor_name)
    THEN [raised |-> FALSE, exc |-> "", errs |-> <<Err("sensor_not_found", sensor_name, 0, FALSE)>>]
  ELSE IF payload.k # "dict"
    THEN [raised |-> TRUE, exc |-> "AttributeError", errs |-> <<>>]   \* payload.get
  ELSE LET s == payload.d[sensor_name]
       IN  IF ~s.isdict
             THEN [raised |-> TRUE, exc |-> "AttributeError", errs |-> <<>>]  \* s.get
           ELSE LET r == CheckKeys(s.d, 1, <<>>)
                IN  IF r.raised THEN r
                    ELSE [r EXCEPT !.errs =
                            IF Suspicious(s.d)
                              THEN @ \o <<Err("suspicious_zero", "", 0, FALSE)>>
                              ELSE @]

(***************************************************************************)
(* SpecValidator: validate_sensor_data on every payload of a bounded set.  *)
(***************************************************************************)
SensorNames == {"CustomBME280", "BME280"}

\* The values a quantity takes in the sampled blocks: the bounds of every
\* range and their neighbours, zero, and every non-number kind.
SampleVals ==
  {JNum(n) : n \in {-1, 0, 9999, 10000, 22500, 85000, 85001, 100000, 100001,
                    699999, 700000, 1013000, 1150000, 1150001}}
  \cup {JNaN, JBig, JNull, JList, JBool(TRUE), JBool(FALSE),
        JStr("22.5"), JStr("nan"), JStr("abc")}

SampleBlocks ==
  {ScalarBlock} \cup
  {DictBlock(f) : f \in UNION {[ks -> SampleVals] :
                     ks \in SUBSET {"Temperature", "Humidity", "Pressure"}}}

GoodBlock == DictBlock([Temperature |-> JNum(22500), Humidity |-> JNum(45000),
                        Pressure |-> JNum(1013000)])

SamplePayloads ==
  {DictPayload("CustomBME280" :> b) : b \in SampleBlocks}
  \cup {DictPayload(<<>>), DictPayload("BME280" :> GoodBlock),
        OtherPayload("scalar", FALSE), OtherPayload("list", FALSE),
        OtherPayload("list", TRUE), OtherPayload("str", TRUE)}

VIdle == v_payload = DictPayload(<<>>) /\ v_sensor = "" /\ v_result = NoResult

InitV ==
  /\ v_payload \in SamplePayloads
  /\ v_sensor \in SensorNames
  /\ v_result = NoResult

Validate ==
  /\ v_result = NoResult
  /\ v_result' = validate_sensor_data(v_payload, v_sensor)
  /\ UNCHANGED <<v_payload, v_sensor>>
  /\ UNCHANGED notV

(***************************************************************************)
(* validate_mqtt_sensor, lines 195-234.                                    *)
(***************************************************************************)
MaxMsgs     == 4     \* messages the broker delivers in one run
MaxWaitSec  == 2     \* the largest args.mqtt_wait_sec tried
MaxConnects == 2     \* on_connect calls in one run (paho reconnects)

SensorName == "CustomBME280"     \* args.sensor_name, line 250

\* Message texts (msg.payload.decode()) the broker may deliver.
TextGood    == "{\"CustomBME280\":{\"Temperature\":22.5,\"Humidity\":45.0,\"Pressure\":1013.0}}"
TextHot     == "{\"CustomBME280\":{\"Temperature\":999,\"Humidity\":45.0,\"Pressure\":1013.0}}"
TextNoBlock == "{\"BME280\":{\"Temperature\":22.5,\"Humidity\":45.0,\"Pressure\":1013.0}}"
TextBlockNum == "{\"CustomBME280\":5}"
TextNumber  == "42"
TextGarbled == "{\"CustomBME280\":"

MsgTexts == {TextGood, TextHot, TextNoBlock, TextBlockNum, TextNumber, TextGarbled}

\* json.loads(raw_json), line 221, on the texts above.
json_loads(raw) ==
  CASE raw = TextGood ->
         [ok |-> TRUE, data |-> DictPayload("CustomBME280" :> GoodBlock)]
    [] raw = TextHot ->
         [ok |-> TRUE, data |-> DictPayload("CustomBME280" :>
             DictBlock([Temperature |-> JNum(999000), Humidity |-> JNum(45000),
                        Pressure |-> JNum(1013000)]))]
    [] raw = TextNoBlock ->
         [ok |-> TRUE, data |-> DictPayload("BME280" :> GoodBlock)]
    [] raw = TextBlockNum ->
         [ok |-> TRUE, data |-> DictPayload("CustomBME280" :> ScalarBlock)]
    [] raw = TextNumber ->
         [ok |-> TRUE, data |-> OtherPayload("scalar", FALSE)]
    [] OTHER ->
         [ok |-> FALSE, data |-> OtherPayload("none", FALSE)]   \* JSONDecodeError

NonePayload == OtherPayload("none", FALSE)

NoMqttResult == [ok |-> FALSE, received_messages |-> -1, errors |-> {},
                 first_payload |-> NonePayload]

\* Faulty variant: only the last error recorded is returned.
ErrorSetLast(errors) ==
  IF errors = <<>> THEN {} ELSE {errors[Len(errors)]}
\* list(set(errors)), line 234: the order of the list is not defined.
ErrorSet(errors) == {errors[i] : i \in 1..Len(errors)}

\* Faulty variant: line 234 without its `or [...]` default.
FailResultNoDefault(errors) ==
  [ok |-> FALSE, received_messages |-> 0, errors |-> ErrorSet(errors),
   first_payload |-> NonePayload]
\* The return of line 234.
FailResult(errors) ==
  [ok |-> FALSE, received_messages |-> 0,
   errors |-> IF ErrorSet(errors) # {} THEN ErrorSet(errors)
              ELSE {Err("no_valid_telemetry", "", 0, FALSE)},
   first_payload |-> NonePayload]

\* The return of line 224.
OkResult(data) ==
  [ok |-> TRUE, received_messages |-> 1, errors |-> {}, first_payload |-> data]

\* Faulty variant: a clean message does not end the loop.
BodyOutcomeNoReturn(raw) ==
  LET j == json_loads(raw)
      v == validate_sensor_data(j.data, SensorName)
  IN  IF ~j.ok
        THEN [k |-> "reject", errs |-> <<Err("invalid_json", "", 0, FALSE)>>, data |-> NonePayload]
      ELSE IF v.raised
        THEN [k |-> "raise", errs |-> <<Err("library_error", v.exc, 0, FALSE)>>, data |-> NonePayload]
      ELSE [k |-> "reject", errs |-> v.errs, data |-> j.data]
(***************************************************************************)
(* One pass of the loop body, lines 220-228, on the text msg_queue.get     *)
(* returned: "accept" (return, line 224), "reject" (errors grow, the loop  *)
(* goes on) or "raise" (an exception neither inner except clause catches,  *)
(* which line 229 catches).                                                *)
(***************************************************************************)
BodyOutcome(raw) ==
  LET j == json_loads(raw)
      v == validate_sensor_data(j.data, SensorName)
  IN  IF ~j.ok
        THEN [k |-> "reject", errs |-> <<Err("invalid_json", "", 0, FALSE)>>, data |-> NonePayload]
      ELSE IF v.raised
        THEN [k |-> "raise", errs |-> <<Err("library_error", v.exc, 0, FALSE)>>, data |-> NonePayload]
      ELSE IF v.errs = <<>>
        THEN [k |-> "accept", errs |-> <<>>, data |-> j.data]
      ELSE [k |-> "reject", errs |-> v.errs, data |-> j.data]

MIdle ==
  /\ m_pc = "off" /\ m_budget = 0 /\ m_elapsed = 0 /\ msg_queue = <<>>
  /\ m_errors = <<>> /\ m_conn = "off" /\ m_connects = 0 /\ m_published = 0
  /\ m_inspected = <<>> /\ m_gets = 0 /\ m_link = "none"
  /\ m_result = NoMqttResult

InitM ==
  /\ m_pc = "start"
  /\ m_budget \in {0, MaxWaitSec}
  /\ m_elapsed = 0 /\ msg_queue = <<>> /\ m_errors = <<>>
  /\ m_conn = "off" /\ m_connects = 0 /\ m_published = 0
  /\ m_inspected = <<>> /\ m_gets = 0 /\ m_link = "none"
  /\ m_result = NoMqttResult

\* finally: client.loop_stop(), lines 231-232: the network thread is stopped;
\* no unsubscribe() and no disconnect() is called, so the connection the
\* client holds is left as it is.
loop_stop(link) == link

\* msg_queue.get(timeout=1), line 220: with the queue empty the call gives
\* up after one second and raises queue.Empty.
PollBlocks(q) == FALSE
PollTimesOut(q) == q = <<>>

\* client.connect succeeds and loop_start starts the network thread,
\* lines 215-216.
MConnectOk ==
  /\ m_pc = "start"
  /\ m_pc' = "loop"
  /\ m_conn' = "pending"
  /\ m_link' = "open"
  /\ UNCHANGED <<m_budget, m_elapsed, msg_queue, m_errors, m_connects,
                 m_published, m_inspected, m_gets, m_result>>
  /\ UNCHANGED notM

\* client.connect raises (broker unreachable): lines 229-234.
MConnectRaises ==
  /\ m_pc = "start"
  /\ m_errors' = Append(m_errors, Err("library_error", "connect", 0, FALSE))
  /\ m_result' = FailResult(m_errors')
  /\ m_pc' = "done"
  /\ m_conn' = "stopped"
  /\ m_link' = loop_stop(m_link)
  /\ UNCHANGED <<m_budget, m_elapsed, msg_queue, m_connects, m_published,
                 m_inspected, m_gets>>
  /\ UNCHANGED notM

\* on_connect, lines 201-203, called by the network thread for each CONNACK.
OnConnect ==
  /\ m_pc = "loop"
  /\ m_conn # "stopped"
  /\ m_connects < MaxConnects
  /\ m_connects' = m_connects + 1
  /\ \E rc \in {0, 5} :
        IF rc = 0
          THEN m_conn' = "subscribed" /\ UNCHANGED m_errors
          ELSE /\ m_conn' = "refused"
               /\ m_errors' = Append(m_errors, Err("conn_failed", "", rc, FALSE))
  /\ UNCHANGED <<m_pc, m_budget, m_elapsed, msg_queue, m_published,
                 m_inspected, m_gets, m_link, m_result>>
  /\ UNCHANGED notM

\* on_message, lines 205-206.
OnMessage ==
  /\ m_pc = "loop"
  /\ m_conn = "subscribed"
  /\ m_published < MaxMsgs
  /\ m_published' = m_published + 1
  /\ \E raw \in MsgTexts : msg_queue' = Append(msg_queue, raw)
  /\ UNCHANGED <<m_pc, m_budget, m_elapsed, m_errors, m_conn, m_connects,
                 m_inspected, m_gets, m_link, m_result>>
  /\ UNCHANGED notM

\* msg_queue.get(timeout=1) raises queue.Empty after one second, line 227.
PollEmpty ==
  /\ m_pc = "loop"
  /\ m_elapsed < m_budget
  /\ PollTimesOut(msg_queue)
  /\ m_gets' = m_gets + 1
  /\ m_elapsed' = m_elapsed + 1
  /\ UNCHANGED <<m_pc, m_budget, msg_queue, m_errors, m_conn, m_connects,
                 m_published, m_inspected, m_link, m_result>>
  /\ UNCHANGED notM

\* msg_queue.get returns a text within its second; lines 220-230.
Consume ==
  /\ m_pc = "loop"
  /\ m_elapsed < m_budget
  /\ msg_queue # <<>>
  /\ LET raw == Head(msg_queue)
         o   == BodyOutcome(raw)
     IN  /\ msg_queue' = Tail(msg_queue)
         /\ m_inspected' = Append(m_inspected, raw)
         /\ m_gets' = m_gets + 1
         /\ \E d \in {0, 1} : m_elapsed' = m_elapsed + d
         /\ m_errors' = m_errors \o o.errs
         /\ CASE o.k = "accept" ->
                   m_result' = OkResult(o.data) /\ m_pc' = "done" /\ m_conn' = "stopped"
                   /\ m_link' = loop_stop(m_link)
              [] o.k = "raise" ->
                   m_result' = FailResult(m_errors') /\ m_pc' = "done" /\ m_conn' = "stopped"
                   /\ m_link' = loop_stop(m_link)
              [] OTHER ->
                   UNCHANGED <<m_result, m_pc, m_conn, m_link>>
  /\ UNCHANGED <<m_budget, m_connects, m_published>>
  /\ UNCHANGED notM

\* The while condition is false, line 218; finally and line 234.
LoopExit ==
  /\ m_pc = "loop"
  /\ ~(m_elapsed < m_budget)
  /\ m_result' = FailResult(m_errors)
  /\ m_pc' = "done"
  /\ m_conn' = "stopped"
  /\ m_link' = loop_stop(m_link)
  /\ UNCHANGED <<m_budget, m_elapsed, msg_queue, m_errors, m_connects,
                 m_published, m_inspected, m_gets>>
  /\ UNCHANGED notM

\* After line 234 the local `client` is unreachable.  Nothing in the function
\* closes its socket; the interpreter may close it when it collects the
\* object, at a moment the function does not control, and without a
\* DISCONNECT or UNSUBSCRIBE packet.
ClientCollected ==
  /\ m_pc = "done"
  /\ m_link = "open"
  /\ m_link' = "dropped"
  /\ UNCHANGED <<m_pc, m_budget, m_elapsed, msg_queue, m_errors, m_conn,
                 m_connects, m_published, m_inspected, m_gets, m_result>>
  /\ UNCHANGED notM

(***************************************************************************)
(* Provisioning, lines 146-191.  An argument is "" when it was not given   *)
(* (None and the empty string are both false in `if args.x:`).             *)
(***************************************************************************)
ArgVals == {"", "secret"}
Truthy(x) == x # ""

MqttHost   == "192.168.1.100"    \* --mqtt-host, required
MqttPort   == "1883"             \* --mqtt-port, line 245
TelePeriod == "10"               \* --teleperiod, line 251

Cmd(name, value) == <<name, value>>
Restart == Cmd("Restart", "1")

\* x if cond else nothing: one optional element of a command list.
Opt(cond, c) == IF cond THEN <<c>> ELSE <<>>

\* The backlog list of lines 148-160.
HttpBacklog(args) ==
  Opt(Truthy(args.wifi_ssid), Cmd("SSID1", args.wifi_ssid))
  \o Opt(Truthy(args.wifi_ssid) /\ Truthy(args.wifi_password),
         Cmd("Password1", args.wifi_password))
  \o <<Cmd("MqttHost", MqttHost), Cmd("MqttPort", MqttPort),
       Cmd("TelePeriod", TelePeriod)>>
  \o Opt(Truthy(args.mqtt_user), Cmd("MqttUser", args.mqtt_user))
  \o Opt(Truthy(args.mqtt_password), Cmd("MqttPassword", args.mqtt_password))
  \o <<Restart>>

\* full_cmd, line 162: "Backlog " + "; ".join(backlog).
FullCmd(args) == [verb |-> "Backlog", parts |-> HttpBacklog(args)]

\* Faulty variant: the restart sent before the telemetry period.
SerialCommandsRestartEarly(args) ==
  Opt(Truthy(args.wifi_ssid), Cmd("SSID1", args.wifi_ssid))
  \o Opt(Truthy(args.wifi_ssid) /\ Truthy(args.wifi_password),
         Cmd("Password1", args.wifi_password))
  \o <<Cmd("MqttHost", MqttHost), Cmd("MqttPort", MqttPort)>>
  \o Opt(Truthy(args.mqtt_user), Cmd("MqttUser", args.mqtt_user))
  \o Opt(Truthy(args.mqtt_password), Cmd("MqttPassword", args.mqtt_password))
  \o <<Restart, Cmd("TelePeriod", TelePeriod)>>
\* The send calls of lines 180-188, in order.
SerialCommands(args) ==
  Opt(Truthy(args.wifi_ssid), Cmd("SSID1", args.wifi_ssid))
  \o Opt(Truthy(args.wifi_ssid) /\ Truthy(args.wifi_password),
         Cmd("Password1", args.wifi_password))
  \o <<Cmd("MqttHost", MqttHost), Cmd("MqttPort", MqttPort)>>
  \o Opt(Truthy(args.mqtt_user), Cmd("MqttUser", args.mqtt_user))
  \o Opt(Truthy(args.mqtt_password), Cmd("MqttPassword", args.mqtt_password))
  \o <<Cmd("TelePeriod", TelePeriod), Restart>>

ProvisionResult(ok, method, commands_sent, responses, error) ==
  [ok |-> ok, method |-> method, commands_sent |-> commands_sent,
   responses |-> responses, error |-> error]

NoProvResult == ProvisionResult(FALSE, "none", <<>>, {}, "not-called")
NoFault == [kind |-> "none", at |-> 0, status |-> 0]

(***************************************************************************)
(* What requests.get met, lines 164-167: no answer at all ("neterr"), or   *)
(* an HTTP response with a status and a body that r.json() can parse       *)
(* ("json") or cannot ("text").                                            *)
(***************************************************************************)
HttpReplies ==
  {[kind |-> "neterr", at |-> 0, status |-> 0]}
  \cup {[kind |-> k, at |-> 0, status |-> st] :
          k \in {"json", "text"}, st \in {200, 401, 500}}

\* provision_via_http, lines 146-167, given what the device answered.
provision_via_http(args, reply) ==
  CASE reply.kind = "neterr" ->
         ProvisionResult(FALSE, "http", <<FullCmd(args)>>, {}, "ConnectionError")
    [] reply.kind = "text" ->
         ProvisionResult(FALSE, "http", <<FullCmd(args)>>, {}, "JSONDecodeError")
    [] OTHER ->
         ProvisionResult(TRUE, "http", <<FullCmd(args)>>, {"json-body"}, "")

NoArgs == [wifi_ssid |-> "", wifi_password |-> "", mqtt_user |-> "", mqtt_password |-> ""]
AllArgs == [wifi_ssid |-> "secret", wifi_password |-> "secret",
            mqtt_user |-> "secret", mqtt_password |-> "secret"]

\* No provisioning call is running.
POff ==
  /\ p_pc = "off" /\ p_method = "none"
  /\ p_port = "closed" /\ p_i = 0 /\ p_cmds = <<>> /\ p_resps = {}
  /\ p_fault = NoFault /\ p_result = NoProvResult

PIdle == POff /\ p_args = NoArgs

InitP ==
  /\ p_pc = "start"
  /\ p_method \in {"http", "serial"}
  /\ p_args \in [wifi_ssid : ArgVals, wifi_password : ArgVals,
                 mqtt_user : ArgVals, mqtt_password : ArgVals]
  /\ p_port = "closed" /\ p_i = 0 /\ p_cmds = <<>> /\ p_resps = {}
  /\ p_fault = NoFault /\ p_result = NoProvResult

\* One call of provision_via_http.
ProvisionHttp ==
  /\ p_pc = "start" /\ p_method = "http"
  /\ \E reply \in HttpReplies :
       /\ p_fault' = reply
       /\ p_result' = provision_via_http(p_args, reply)
  /\ p_pc' = "done"
  /\ UNCHANGED <<p_method, p_args, p_port, p_i, p_cmds, p_resps>>
  /\ UNCHANGED notP

\* Faulty variant: the port is left as it was.
with_exit_leaks(port) == port
\* Leaving `with serial.Serial(...) as ser:` (lines 173 and 272), by the end
\* of the block, a return, a break or an exception: the port is closed.
with_exit(port) == "closed"

\* The return of line 191: the cmds and resps lists as they are now.  The
\* with statement has closed the port on the way out.
SerialFailure(cmds, resps, error) ==
  ProvisionResult(FALSE, "serial", cmds, resps, error)

\* serial.Serial(...) opens the port, the sleep, reset_input_buffer:
\* lines 173-175.
SerialOpen ==
  /\ p_pc = "start" /\ p_method = "serial"
  /\ \E outcome \in {"ok", "open_raises", "reset_raises"} :
       IF outcome = "ok"
         THEN /\ p_port' = "open" /\ p_pc' = "send" /\ p_i' = 1
              /\ UNCHANGED <<p_fault, p_result>>
         ELSE /\ p_port' = (IF outcome = "open_raises" THEN p_port
                                ELSE with_exit("open"))
              /\ p_pc' = "done" /\ p_i' = 0
              /\ p_fault' = [kind |-> outcome, at |-> 0, status |-> 0]
              /\ p_result' = SerialFailure(p_cmds, p_resps, "SerialException")
  /\ UNCHANGED <<p_method, p_args, p_cmds, p_resps>>
  /\ UNCHANGED notP

\* One call of send, lines 176-178: cmds.append(c) first, then the write,
\* the sleep and read_all; either of the two may raise.
SerialSend ==
  /\ p_pc = "send" /\ p_i <= Len(SerialCommands(p_args))
  /\ LET c == SerialCommands(p_args)[p_i]
     IN  \E outcome \in {"ok", "write_raises", "read_raises"} :
           /\ p_cmds' = Append(p_cmds, c)
           /\ IF outcome = "ok"
                THEN /\ p_resps' = p_resps \cup {c}
                     /\ p_i' = p_i + 1
                     /\ UNCHANGED <<p_pc, p_port, p_fault, p_result>>
                ELSE /\ p_port' = with_exit(p_port) /\ p_pc' = "done"
                     /\ p_fault' = [kind |-> outcome, at |-> p_i, status |-> 0]
                     /\ p_result' = SerialFailure(p_cmds', p_resps, "SerialException")
                     /\ UNCHANGED <<p_resps, p_i>>
  /\ UNCHANGED <<p_method, p_args>>
  /\ UNCHANGED notP

\* The return of line 189, after the last send.
SerialReturn ==
  /\ p_pc = "send" /\ p_i > Len(SerialCommands(p_args))
  /\ p_result' = ProvisionResult(TRUE, "serial", p_cmds, p_resps, "")
  /\ p_port' = with_exit(p_port) /\ p_pc' = "done"
  /\ UNCHANGED <<p_method, p_args, p_i, p_cmds, p_resps, p_fault>>
  /\ UNCHANGED notP

(***************************************************************************)
(* Discovery as main sees it, lines 112-142: what each probed address      *)
(* answered decides the list scan_network returns.                         *)
(***************************************************************************)
NoTopic == ""            \* None (or an empty topic): false in `if d.topic:`
ScanHosts == <<"192.168.1.1", "192.168.1.2">>   \* network.hosts() of a /30
ProbeAnswers == {"none", "topic", "notopic"}

DeviceInfo(ip, topic, discovered_by) ==
  [ip |-> ip, port |-> 80, topic |-> topic, model |-> "Tasmota",
   discovered_by |-> discovered_by]

\* The topic a device reports: "tasmota_" and the last octet.
TopicOf(ip) ==
  CASE ip = "192.168.1.1"  -> "tasmota_1"
    [] ip = "192.168.1.2"  -> "tasmota_2"
    [] OTHER               -> "tasmota_50"

\* Faulty variant: the record keeps the default tag of DeviceInfo.
probe_ip_default_tag(ip, answer) ==
  CASE answer = "topic"   -> <<DeviceInfo(ip, TopicOf(ip), "scan")>>
    [] answer = "notopic" -> <<DeviceInfo(ip, "unknown", "scan")>>
    [] OTHER              -> <<>>
\* Faulty variant: the status code is not looked at.
probe_ip_any_status(ip, answer) ==
  CASE answer \in {"topic", "http_404"} -> <<DeviceInfo(ip, TopicOf(ip), "http-probe")>>
    [] answer = "notopic" -> <<DeviceInfo(ip, "unknown", "http-probe")>>
    [] OTHER              -> <<>>
\* _probe_ip, lines 112-130: <<record>> or <<>> (None).  "topic": status 200
\* and a JSON object whose Status object has a Topic; "notopic": the same
\* without Topic, st.get("Topic", "unknown"); anything else (no answer,
\* another status, a body that is not JSON, no Status key, a Status that is
\* not an object) ends in `return None`, through the if or the bare except.
probe_ip(ip, answer) ==
  CASE answer = "topic"   -> <<DeviceInfo(ip, TopicOf(ip), "http-probe")>>
    [] answer = "notopic" -> <<DeviceInfo(ip, "unknown", "http-probe")>>
    [] OTHER              -> <<>>

\* scan_network, lines 132-142: the records of the probes that returned one,
\* in the order of the addresses (gather keeps it).
RECURSIVE scan_from(_, _)
scan_from(answers, i) ==
  IF i > Len(ScanHosts) THEN <<>>
  ELSE probe_ip(ScanHosts[i], answers[i]) \o scan_from(answers, i + 1)
scan_network(answers) == scan_from(answers, 1)

ScanAnswers == [1..Len(ScanHosts) -> ProbeAnswers]

(***************************************************************************)
(* scan_network as it runs, lines 132-142: one _probe_ip coroutine per     *)
(* address, all created at once and awaited by gather, over a session      *)
(* whose TCPConnector hands out at most `concurrency` connections.  Scaled *)
(* down: main sweeps a /24 (254 addresses) with a limit of 200.            *)
(***************************************************************************)
MaxHosts == 3      \* the most addresses a sweep covers
MaxLimit == 2      \* the largest concurrency tried

HostAddr(i) ==
  CASE i = 1 -> "192.168.1.1"
    [] i = 2 -> "192.168.1.2"
    [] i = 3 -> "192.168.1.3"
    [] OTHER -> "192.168.1.4"

\* What a probe that got a connection may meet.
ScanProbeAnswers ==
  {"timeout", "refused", "http_404", "bad_json", "no_status",
   "status_not_object", "notopic", "topic"}

SIdle ==
  /\ s_pc = "off" /\ s_n = 0 /\ s_limit = 0
  /\ s_task = <<>> /\ s_answer = <<>> /\ s_ret = <<>> /\ s_result = <<>>

InitS ==
  /\ s_pc = "start"
  /\ s_n \in 1..MaxHosts
  /\ s_limit \in 1..MaxLimit
  /\ s_task = <<>> /\ s_answer = <<>> /\ s_ret = <<>> /\ s_result = <<>>

\* Lines 134-140: the tasks list holds one coroutine per address and gather
\* schedules them all.
ScanStart ==
  /\ s_pc = "start"
  /\ s_pc' = "gather"
  /\ s_task' = [i \in 1..s_n |-> "waiting"]
  /\ s_answer' = [i \in 1..s_n |-> "pending"]
  /\ s_ret' = [i \in 1..s_n |-> <<>>]
  /\ UNCHANGED <<s_n, s_limit, s_result>>
  /\ UNCHANGED notS

InFlight(task) == {i \in DOMAIN task : task[i] = "inflight"}

\* Faulty variant: a connector without a limit.
CanAcquireUnlimited(task, limit) == TRUE
\* aiohttp.TCPConnector(limit=concurrency), line 137: session.get obtains a
\* connection only while fewer than `limit` are handed out.
CanAcquire(task, limit) == Cardinality(InFlight(task)) < limit

\* session.get of one probe is given a connection, line 116.
ProbeAcquire ==
  /\ s_pc = "gather"
  /\ \E i \in DOMAIN s_task :
       /\ s_task[i] = "waiting"
       /\ CanAcquire(s_task, s_limit)
       /\ s_task' = [s_task EXCEPT ![i] = "inflight"]
  /\ UNCHANGED <<s_pc, s_n, s_limit, s_answer, s_ret, s_result>>
  /\ UNCHANGED notS

\* The 1.5 s of line 116 run out while the probe still waits for a
\* connection: the bare except, `return None`.
ProbePoolTimeout ==
  /\ s_pc = "gather"
  /\ \E i \in DOMAIN s_task :
       /\ s_task[i] = "waiting"
       /\ s_task' = [s_task EXCEPT ![i] = "settled"]
       /\ s_answer' = [s_answer EXCEPT ![i] = "pool_timeout"]
       /\ s_ret' = [s_ret EXCEPT ![i] = probe_ip(HostAddr(i), "pool_timeout")]
  /\ UNCHANGED <<s_pc, s_n, s_limit, s_result>>
  /\ UNCHANGED notS

\* A probe that holds a connection gets its answer, or none: lines 116-130.
\* Leaving `async with` gives the connection back.
ProbeSettle ==
  /\ s_pc = "gather"
  /\ \E i \in DOMAIN s_task, answer \in ScanProbeAnswers :
       /\ s_task[i] = "inflight"
       /\ s_task' = [s_task EXCEPT ![i] = "settled"]
       /\ s_answer' = [s_answer EXCEPT ![i] = answer]
       /\ s_ret' = [s_ret EXCEPT ![i] = probe_ip(HostAddr(i), answer)]
  /\ UNCHANGED <<s_pc, s_n, s_limit, s_result>>
  /\ UNCHANGED notS

\* Faulty variant: the first finished task ends the wait.
GatherFirstDone(task) == \E i \in DOMAIN task : task[i] = "settled"
\* await asyncio.gather(*tasks), line 140: no task raises (the bare except
\* of _probe_ip), so gather is done when every task has returned.
GatherDone(task) == \A i \in DOMAIN task : task[i] = "settled"

\* [r for r in results if r], line 142, results in the order of the tasks.
RECURSIVE kept_results(_, _)
kept_results(ret, i) ==
  IF i > Len(ret) THEN <<>> ELSE ret[i] \o kept_results(ret, i + 1)

\* gather returns and scan_network returns the list, lines 140-142.
ScanReturn ==
  /\ s_pc = "gather"
  /\ GatherDone(s_task)
  /\ s_result' = kept_results(s_ret, 1)
  /\ s_pc' = "returned"
  /\ UNCHANGED <<s_n, s_limit, s_task, s_answer, s_ret>>
  /\ UNCHANGED notS

(***************************************************************************)
(* main, lines 238-348.                                                    *)
(***************************************************************************)
NoReport == [emitted |-> FALSE]

\* d[key] = value on a dict.
DictSet(d, key, value) ==
  [k \in DOMAIN d \cup {key} |-> IF k = key THEN value ELSE d[k]]

SubTopic(topic) == <<"tele", topic, "SENSOR">>     \* line 197

\* What validate_mqtt_sensor may return to main: accepted, budget over with
\* nothing or with rejected telemetry, broker unreachable or refusing.
MqttOutcomes ==
  {OkResult(DictPayload(SensorName :> GoodBlock)),
   FailResult(<<>>),
   FailResult(<<Err("library_error", "connect", 0, FALSE)>>)}

MqttResultFor(topic, r) ==
  [topic |-> SubTopic(topic), ok |-> r.ok, received_messages |-> r.received_messages,
   errors |-> r.errors, first_payload |-> r.first_payload]

\* What the re-query of lines 313-316 may do: raise, or deliver a topic
\* (possibly null or empty).
RequeryOutcomes == {"raises", "topic", "empty"}

OIdle ==
  /\ o_pc = "off"
  /\ o_args = [provision_via |-> "none", target_ip |-> "", cidr |-> ""]
  /\ o_ports = <<>> /\ o_open = "closed" /\ o_waited = 0
  /\ found_port = "" /\ devices = <<>> /\ o_i = 0
  /\ prov_results = <<>> /\ mqtt_results = <<>>
  /\ o_skipped = {} /\ o_validated = <<>> /\ final_report = NoReport

InitO ==
  /\ o_pc = "start"
  /\ o_args \in [provision_via : {"http", "serial", "none"},
                 target_ip : {"", "192.168.1.50"},
                 cidr : {"", "192.168.1.0/30"}]
  /\ o_ports = <<>> /\ o_open = "closed" /\ o_waited = 0
  /\ found_port = "" /\ devices = <<>> /\ o_i = 0
  /\ prov_results = <<>> /\ mqtt_results = <<>>
  /\ o_skipped = {} /\ o_validated = <<>> /\ final_report = NoReport

\* Faulty variant: a failed device ends the loop.
AfterDeviceStopOnFailure(i, ok) == IF ok THEN i + 1 ELSE Len(devices) + 1
\* The index the for loops of lines 300 and 310 go on with after a device,
\* whatever the outcome for that device was.
AfterDevice(i, ok) == i + 1

\* Line 266, serial: comports() lists the ports, line 268.
OListPorts ==
  /\ o_pc = "start" /\ o_args.provision_via = "serial"
  /\ o_ports' \in {<<>>, <<"/dev/ttyUSB0">>, <<"/dev/ttyUSB0", "/dev/ttyUSB1">>}
  /\ o_pc' = "locate"
  /\ UNCHANGED <<o_args, found_port, devices, o_i, prov_results, mqtt_results,
                 o_skipped, o_validated, final_report>>
  /\ UNCHANGED <<o_open, o_waited>>
  /\ UNCHANGED pvars
  /\ UNCHANGED notO

\* The locator loop takes the next port, lines 270-272: serial.Serial opens
\* it, or raises (continue, nothing was opened).
OOpenPort ==
  /\ o_pc = "locate" /\ o_ports # <<>> /\ found_port = ""
  /\ \E opened \in BOOLEAN :
       IF opened
         THEN o_open' = Head(o_ports) /\ o_pc' = "probe" /\ UNCHANGED o_ports
         ELSE o_ports' = Tail(o_ports) /\ UNCHANGED <<o_open, o_pc>>
  /\ UNCHANGED <<o_args, found_port, devices, o_i, prov_results, mqtt_results,
                 o_skipped, o_validated, final_report, o_waited>>
  /\ UNCHANGED pvars
  /\ UNCHANGED notO

\* Inside the with block, lines 273-275: the port answers with "Status"
\* (found, break), answers something else (next port), or the write or the
\* read raises (continue).  Each way out leaves the with block.
OProbePort ==
  /\ o_pc = "probe"
  /\ \E answer \in {"status", "other", "raises"} :
       IF answer = "status"
         THEN found_port' = o_open /\ UNCHANGED o_ports
         ELSE o_ports' = Tail(o_ports) /\ UNCHANGED found_port
  /\ o_open' = with_exit(o_open)
  /\ o_pc' = "locate"
  /\ UNCHANGED <<o_args, devices, o_i, prov_results, mqtt_results,
                 o_skipped, o_validated, final_report, o_waited>>
  /\ UNCHANGED pvars
  /\ UNCHANGED notO

\* Line 287: no port answered; devices stays empty.
ONoPort ==
  /\ o_pc = "locate" /\ o_ports = <<>> /\ found_port = ""
  /\ o_pc' = "validate" /\ o_i' = 1
  /\ UNCHANGED <<o_args, o_ports, found_port, devices, prov_results,
                 mqtt_results, o_skipped, o_validated, final_report>>
  /\ UNCHANGED <<o_open, o_waited>>
  /\ UNCHANGED pvars
  /\ UNCHANGED notO

\* Line 278: provision_via_serial(found_port, args) is called.
OCallSerial ==
  /\ o_pc = "locate" /\ found_port # ""
  /\ o_pc' = "serial_prov"
  /\ p_pc' = "start" /\ p_method' = "serial"
  /\ UNCHANGED <<p_args, p_port, p_i, p_cmds, p_resps, p_fault, p_result>>
  /\ UNCHANGED <<o_args, o_ports, found_port, devices, o_i, prov_results,
                 mqtt_results, o_skipped, o_validated, final_report>>
  /\ UNCHANGED <<o_open, o_waited>>
  /\ UNCHANGED notO

SerialRebootWait == 20     \* time.sleep(20), line 284
HttpSettleWait   == 15     \* time.sleep(15), line 305

\* Lines 279-286: the result is stored; if it is ok and a range was given,
\* the 20 s wait and the scan.
OSerialReturned ==
  /\ o_pc = "serial_prov" /\ p_pc = "done"
  /\ prov_results' = DictSet(prov_results, found_port, p_result)
  /\ IF p_result.ok /\ o_args.cidr # ""
       THEN /\ o_waited' = o_waited + SerialRebootWait
            /\ \E answers \in ScanAnswers : devices' = scan_network(answers)
       ELSE UNCHANGED <<devices, o_waited>>
  /\ o_pc' = "validate" /\ o_i' = 1
  /\ UNCHANGED <<o_args, o_ports, found_port, mqtt_results, o_skipped,
                 o_validated, final_report, o_open>>
  /\ UNCHANGED pvars
  /\ UNCHANGED notO

\* Lines 290-297, http or none: the manual device, or the scan, or nothing.
ODiscover ==
  /\ o_pc = "start" /\ o_args.provision_via # "serial"
  /\ IF o_args.target_ip # ""
       THEN devices' = <<DeviceInfo(o_args.target_ip, NoTopic, "manual")>>
       ELSE IF o_args.cidr # ""
         THEN \E answers \in ScanAnswers : devices' = scan_network(answers)
         ELSE UNCHANGED devices
  /\ o_i' = 1
  /\ o_pc' = IF o_args.provision_via = "http" /\ devices' # <<>>
               THEN "http_prov" ELSE "validate"
  /\ UNCHANGED <<o_args, o_ports, found_port, prov_results, mqtt_results,
                 o_skipped, o_validated, final_report>>
  /\ UNCHANGED <<o_open, o_waited>>
  /\ UNCHANGED pvars
  /\ UNCHANGED notO

\* One pass of the loop of lines 300-303.
OProvisionHttp ==
  /\ o_pc = "http_prov" /\ o_i <= Len(devices)
  /\ \E reply \in HttpReplies :
       LET res == provision_via_http(p_args, reply)
       IN  /\ prov_results' = DictSet(prov_results, devices[o_i].ip, res)
           /\ o_i' = AfterDevice(o_i, res.ok)
  /\ UNCHANGED <<o_pc, o_args, o_ports, found_port, devices, mqtt_results,
                 o_skipped, o_validated, final_report>>
  /\ UNCHANGED <<o_open, o_waited>>
  /\ UNCHANGED pvars
  /\ UNCHANGED notO

\* Lines 304-305: the loop is over, the 15 s wait.
OSettle ==
  /\ o_pc = "http_prov" /\ o_i > Len(devices)
  /\ o_waited' = o_waited + HttpSettleWait
  /\ o_pc' = "validate" /\ o_i' = 1
  /\ UNCHANGED <<o_args, o_ports, found_port, devices, prov_results,
                 mqtt_results, o_skipped, o_validated, final_report, o_open>>
  /\ UNCHANGED pvars
  /\ UNCHANGED notO

\* d.topic after lines 312-316.
RefreshedTopic(d, requery) ==
  IF d.topic = NoTopic \/ d.topic = "unknown"
    THEN CASE requery = "topic" -> TopicOf(d.ip)
           [] requery = "empty" -> NoTopic
           [] OTHER             -> d.topic
    ELSE d.topic

\* `if d.topic:`, line 318.
HasTopic(topic) == topic # NoTopic

\* One pass of the loop of lines 310-323.
OValidateDevice ==
  /\ o_pc = "validate" /\ o_i <= Len(devices)
  /\ \E requery \in RequeryOutcomes, r \in MqttOutcomes :
       LET d     == devices[o_i]
           topic == RefreshedTopic(d, requery)
       IN  /\ devices' = [devices EXCEPT ![o_i].topic = topic]
           /\ IF HasTopic(topic)
                THEN /\ mqtt_results' = DictSet(mqtt_results, d.ip, MqttResultFor(topic, r))
                     /\ o_validated' = Append(o_validated, [ip |-> d.ip, topic |-> topic])
                     /\ o_i' = AfterDevice(o_i, r.ok)
                     /\ UNCHANGED o_skipped
                ELSE /\ o_skipped' = o_skipped \cup {d.ip}
                     /\ o_i' = AfterDevice(o_i, TRUE)
                     /\ UNCHANGED <<mqtt_results, o_validated>>
  /\ UNCHANGED <<o_pc, o_args, o_ports, found_port, prov_results, final_report>>
  /\ UNCHANGED <<o_open, o_waited>>
  /\ UNCHANGED pvars
  /\ UNCHANGED notO

\* The loop of phase 2 is over (or there was no device, line 325).
OValidated ==
  /\ o_pc = "validate" /\ o_i > Len(devices)
  /\ o_pc' = "report"
  /\ UNCHANGED <<o_args, o_ports, found_port, devices, o_i, prov_results,
                 mqtt_results, o_skipped, o_validated, final_report>>
  /\ UNCHANGED <<o_open, o_waited>>
  /\ UNCHANGED pvars
  /\ UNCHANGED notO

\* final_report, lines 328-339 (the timestamp left out).
BuildReport ==
  [emitted |-> TRUE,
   summary |-> [devices_found |-> Len(devices),
                provisioning_count |-> Cardinality(DOMAIN prov_results),
                successful_validations |->
                  Cardinality({k \in DOMAIN mqtt_results : mqtt_results[k].ok})],
   config_used |-> [provision_via |-> o_args.provision_via,
                    target_ip |-> o_args.target_ip, cidr |-> o_args.cidr,
                    wifi_ssid |-> p_args.wifi_ssid, mqtt_user |-> p_args.mqtt_user],
   discovered_devices |-> devices,
   provisioning_logs |-> prov_results,
   mqtt_validation |-> mqtt_results]

\* Phase 3, lines 328-348: the report is built, written and printed.
OReport ==
  /\ o_pc = "report"
  /\ final_report' = BuildReport
  /\ o_pc' = "done"
  /\ UNCHANGED <<o_args, o_ports, found_port, devices, o_i, prov_results,
                 mqtt_results, o_skipped, o_validated>>
  /\ UNCHANGED <<o_open, o_waited>>
  /\ UNCHANGED pvars
  /\ UNCHANGED notO

(***************************************************************************)
(* Specifications.                                                         *)
(***************************************************************************)
NextV == Validate
InitValidator == InitV /\ MIdle /\ PIdle /\ OIdle /\ SIdle
SpecValidator == InitValidator /\ [][NextV]_vars

NextM ==
  \/ MConnectOk
  \/ MConnectRaises
  \/ OnConnect
  \/ OnMessage
  \/ PollEmpty
  \/ Consume
  \/ LoopExit
  \/ ClientCollected
InitMqtt == InitM /\ VIdle /\ PIdle /\ OIdle /\ SIdle
SpecMqtt == InitMqtt /\ [][NextM]_vars

\* The steps of the thread that runs validate_mqtt_sensor.  connect, the
\* one-second get and the loop body all return in finite time, so the step
\* the thread is at is eventually taken; the callbacks are the broker's
\* doing and get no fairness.
MainThreadStep ==
  \/ MConnectOk
  \/ MConnectRaises
  \/ PollEmpty
  \/ Consume
  \/ LoopExit
FairSpecMqtt == SpecMqtt /\ WF_vars(MainThreadStep)

NextP ==
  \/ ProvisionHttp
  \/ SerialOpen
  \/ SerialSend
  \/ SerialReturn
InitProv == InitP /\ VIdle /\ MIdle /\ OIdle /\ SIdle
SpecProv == InitProv /\ [][NextP]_vars

\* main, with provision_via_serial running inside it.
NextS ==
  \/ ScanStart
  \/ ProbeAcquire
  \/ ProbePoolTimeout
  \/ ProbeSettle
  \/ ScanReturn
InitScan == InitS /\ VIdle /\ MIdle /\ PIdle /\ OIdle
SpecScan == InitScan /\ [][NextS]_vars

Init == InitO /\ POff /\ p_args \in {NoArgs, AllArgs} /\ VIdle /\ MIdle /\ SIdle
Next ==
  \/ OListPorts
  \/ OOpenPort
  \/ OProbePort
  \/ ONoPort
  \/ OCallSerial
  \/ SerialOpen
  \/ SerialSend
  \/ SerialReturn
  \/ OSerialReturned
  \/ ODiscover
  \/ OProvisionHttp
  \/ OSettle
  \/ OValidateDevice
  \/ OValidated
  \/ OReport
Spec == Init /\ [][Next]_vars

\* main is one thread that nothing blocks for ever: every call it makes
\* carries a timeout, so the step it is at is eventually taken.
FairSpec == Spec /\ WF_vars(Next)

(***************************************************************************)
(* Claims about validate_sensor_data (SpecValidator).                      *)
(***************************************************************************)
\* The ranges as the claim states them, in thousandths.
C3_Bounds == [Temperature |-> <<10000, 85000>>,
              Humidity    |-> <<0, 100000>>,
              Pressure    |-> <<700000, 1150000>>]

\* A value that float() turns into a number within lo..hi.
C3_NumericWithin(val, lo, hi) ==
  /\ val.t \in {"num", "bool", "str", "nan"}
  /\ PyFloat(val).ok
  /\ ~PyFloat(val).nan
  /\ lo <= PyFloat(val).m /\ PyFloat(val).m <= hi

C3_AllPlausible(payload, name) ==
  /\ payload.k = "dict"
  /\ name \in DOMAIN payload.d
  /\ payload.d[name].isdict
  /\ LET s == payload.d[name].d
     IN  /\ \A key \in DOMAIN C3_Bounds :
               /\ key \in DOMAIN s
               /\ C3_NumericWithin(s[key], C3_Bounds[key][1], C3_Bounds[key][2])
         /\ ~(EqZero(s["Temperature"]) /\ EqZero(s["Humidity"]))

\* C3: validate_sensor_data returns an empty list if and only if the sensor
\* block is present, Temperature, Humidity and Pressure are all present,
\* numeric and within their inclusive bounds (10..85, 0..100, 700..1150),
\* and Temperature and Humidity are not both exactly zero.
C3_EmptyIffAllValid ==
  v_result # NoResult =>
    ((~v_result.raised /\ v_result.errs = <<>>) <=> C3_AllPlausible(v_payload, v_sensor))

\* A payload accepted with Temperature on its lower bound and Pressure on
\* its upper bound.
C3_Witness ==
  /\ v_result # NoResult /\ ~v_result.raised /\ v_result.errs = <<>>
  /\ v_payload.d[v_sensor].d["Temperature"] = JNum(10000)
  /\ v_payload.d[v_sensor].d["Pressure"] = JNum(1150000)

(***************************************************************************)
(* Claims about validate_mqtt_sensor (SpecMqtt).                           *)
(***************************************************************************)
\* The text parses and validate_sensor_data finds no violation in it.
Passes(raw) ==
  /\ json_loads(raw).ok
  /\ ~validate_sensor_data(json_loads(raw).data, SensorName).raised
  /\ validate_sensor_data(json_loads(raw).data, SensorName).errs = <<>>

\* C1: the first dequeued message that parses and passes validation ends
\* the function: it is the last message ever dequeued, the function has
\* returned ok = true with received_messages = 1, whatever was rejected
\* before it and whatever is still queued behind it.
C1_FirstValidWins ==
  \A i \in 1..Len(m_inspected) :
    Passes(m_inspected[i]) =>
      /\ i = Len(m_inspected)
      /\ m_pc = "done"
      /\ m_result.ok /\ m_result.received_messages = 1

\* Two rejected messages, the third accepted, a fourth valid one left in
\* the queue.
C1_Witness ==
  /\ Len(m_inspected) = 3
  /\ ~Passes(m_inspected[1]) /\ ~Passes(m_inspected[2]) /\ Passes(m_inspected[3])
  /\ msg_queue # <<>> /\ Passes(Head(msg_queue))
  /\ m_pc = "done" /\ m_result.ok

\* C2: every result returned has ok true exactly when received_messages
\* is 1, and a non-empty errors list whenever ok is false.
C2_ResultInvariant ==
  m_pc = "done" =>
    /\ (m_result.ok <=> m_result.received_messages = 1)
    /\ (~m_result.ok => m_result.errors # {})

\* The budget ran out after at least one poll, with a subscription, no
\* message and no error recorded.
C2_Witness ==
  /\ m_pc = "done" /\ ~m_result.ok
  /\ m_errors = <<>> /\ m_inspected = <<>> /\ m_gets > 0
  /\ m_result.errors = {Err("no_valid_telemetry", "", 0, FALSE)}

\* A connection failure is on record: connect raised, or on_connect got a
\* non-zero code.
ConnFailed ==
  \E i \in 1..Len(m_errors) :
    \/ m_errors[i].e = "conn_failed"
    \/ m_errors[i].e = "library_error" /\ m_errors[i].key = "connect"

\* C10: after any connection failure (connect raising, or on_connect called
\* with a non-zero code) the function goes straight to its failure result:
\* no msg_queue.get and no validation happens after the failure.
C10_NoConsumeAfterConnFailure ==
  [][ConnFailed => m_gets' = m_gets]_vars

\* C11, as stated: whenever validate_mqtt_sensor has returned, by whichever
\* path, the client holds no open broker connection: subscription and
\* connection were released before the return.
C11_ConnectionReleasedOnReturn ==
  m_pc = "done" => m_link # "open"

\* What the rejected samples put on record: out-of-range, missing and NaN
\* quantities, a missing sensor block, and malformed JSON.
C15_IsSampleError(e) ==
  e.e \notin {"conn_failed", "library_error", "no_valid_telemetry"}
C15_Recorded(raw) == ErrorSet(BodyOutcome(raw).errs)
C15_AllRecorded ==
  UNION {C15_Recorded(m_inspected[i]) : i \in 1..Len(m_inspected)}
C15_SampleErrors == {e \in C15_AllRecorded : C15_IsSampleError(e)}
C15_ConnErrors ==
  {e \in ErrorSet(m_errors) :
     e.e = "conn_failed" \/ (e.e = "library_error" /\ e.key = "connect")}

\* C15, as stated: in either terminal state, accepted or timed out, the
\* errors of the result hold every violation and malformed-JSON error that
\* was recorded for a sample rejected before the loop ended.
C15_ErrorsKeptInEveryOutcome ==
  m_pc = "done" => C15_SampleErrors \subseteq m_result.errors

\* C15, amended: an accepted result carries an empty errors list, whatever
\* was rejected before it; a failed result carries, each once, everything
\* recorded before the loop ended (the errors of every rejected sample and
\* any connection or library error), or the one "no valid telemetry" entry
\* when nothing was recorded.
C15_ErrorsOfFailedResultOnly ==
  m_pc = "done" =>
    LET all == C15_AllRecorded \cup C15_ConnErrors
    IN  IF m_result.ok
          THEN m_result.errors = {}
          ELSE m_result.errors =
                 IF all = {} THEN {Err("no_valid_telemetry", "", 0, FALSE)}
                 ELSE all

\* The budget ran out after the same bad sample was rejected twice and a
\* different one once: three errors on record, two in the result.
C15_Witness ==
  /\ m_pc = "done" /\ ~m_result.ok
  /\ Len(m_inspected) = 3 /\ m_inspected[1] = m_inspected[2]
  /\ Len(m_errors) = 3
  /\ Cardinality(m_result.errors) = 2
  /\ m_result.errors = C15_SampleErrors

\* C17, as stated: once connect has succeeded the loop ends in one of two
\* ways only, a message accepted or the budget used up; a rejected message
\* of any kind leaves the loop running.
C17_LoopEndsOnlyByAcceptOrExpiry ==
  (m_pc = "done" /\ m_link # "none") =>
    (m_result.ok \/ m_elapsed >= m_budget)

\* C18: validate_mqtt_sensor returns under every arrival pattern; the budget
\* is looked at before every get, each get is followed by a new look, and
\* once a look finds that the elapsed time has reached the budget nothing
\* more is dequeued and the next step of the function is its return.  (A
\* get that began before the budget was reached may still deliver a message
\* within its one second.)
C18_NoGetPastBudget ==
  (m_pc = "loop" /\ m_elapsed >= m_budget) =>
    /\ m_gets' = m_gets /\ m_inspected' = m_inspected /\ msg_queue' \in {msg_queue} \cup {Append(msg_queue, raw) : raw \in MsgTexts}
    /\ m_pc' \in {"loop", "done"}
C18_OneGetPerCheck ==
  m_gets' # m_gets => (m_elapsed < m_budget /\ m_gets' = m_gets + 1)
C18_AlwaysTerminates ==
  /\ [][C18_NoGetPastBudget /\ C18_OneGetPerCheck]_vars
  /\ <>(m_pc = "done")

\* The budget ran out while messages kept arriving: two were rejected, one
\* is still queued, unread, when the function returns.
C18_Witness ==
  /\ m_pc = "done" /\ ~m_result.ok
  /\ m_budget > 0 /\ m_elapsed >= m_budget
  /\ Len(m_inspected) = 2 /\ msg_queue # <<>>

(***************************************************************************)
(* Claims about provisioning (SpecProv).                                   *)
(***************************************************************************)
\* C4: when the write of the k-th serial command fails, the result has
\* ok = false and commands_sent holds exactly the k-1 commands sent before
\* it, in order, without the failing command.
C4_FailedWriteKeepsEarlierCommands ==
  (p_pc = "done" /\ p_method = "serial" /\ p_fault.kind = "write_raises") =>
    /\ ~p_result.ok
    /\ p_result.commands_sent = SubSeq(SerialCommands(p_args), 1, p_fault.at - 1)

\* C5, as stated: a serial run that completes has issued the commands of
\* the HTTP backlog in the same order.
C5_SerialSameOrderAsHttp ==
  (p_pc = "done" /\ p_method = "serial" /\ p_result.ok) =>
    p_result.commands_sent = HttpBacklog(p_args)

C5_BeforeTele(c) == c[1] \notin {"TelePeriod", "Restart"}
C5_Set(seq) == {seq[i] : i \in 1..Len(seq)}

\* C5, amended: a serial run that completes has issued exactly the commands
\* of the HTTP backlog, each once, with restart last; the order is the
\* backlog's except that the telemetry period comes after the broker user
\* and password instead of before them.
C5_SerialIsHttpWithTeleLate ==
  (p_pc = "done" /\ p_method = "serial" /\ p_result.ok) =>
    LET ser  == p_result.commands_sent
        http == HttpBacklog(p_args)
    IN  /\ Len(ser) = Len(http)
        /\ C5_Set(ser) = C5_Set(http)
        /\ Cardinality(C5_Set(ser)) = Len(ser)
        /\ ser[Len(ser)] = Restart /\ http[Len(http)] = Restart
        /\ ser = SelectSeq(http, C5_BeforeTele)
                   \o <<Cmd("TelePeriod", TelePeriod), Restart>>

\* A completed serial run with every optional setting given: eight
\* commands, in an order that is not the backlog's.
C5_Witness ==
  /\ p_pc = "done" /\ p_method = "serial" /\ p_result.ok
  /\ Len(p_result.commands_sent) = 8
  /\ p_result.commands_sent # HttpBacklog(p_args)

\* C6: provision_via_http returns ok = false with an error text whenever
\* the request fails at the network level or the device answers with a
\* non-success status, and commands_sent always holds exactly the one
\* composite backlog command.
C6_HttpFailureReported ==
  (p_pc = "done" /\ p_method = "http") =>
    /\ (p_fault.kind = "neterr" \/ p_fault.status \notin 200..299) =>
          (~p_result.ok /\ p_result.error # "")
    /\ p_result.commands_sent = <<FullCmd(p_args)>>

(***************************************************************************)
(* Claims about main (Spec, FairSpec).                                     *)
(***************************************************************************)
\* C7: a device whose topic is still unknown after the identity re-query
\* (no topic at all, or the placeholder "unknown" of a scan answer without
\* Topic) is skipped: validate_mqtt_sensor is never called for it.
C7_UnknownTopicSkipped ==
  \A k \in 1..Len(o_validated) :
    o_validated[k].topic \notin {NoTopic, "unknown"}

\* C8: in the final report every device of discovered_devices has an entry
\* under mqtt_validation or a skip reason recorded for its address.
C8_EveryDeviceAccounted ==
  o_pc = "done" =>
    \A i \in 1..Len(final_report.discovered_devices) :
      LET ip == final_report.discovered_devices[i].ip
      IN  \/ ip \in DOMAIN final_report.mqtt_validation
          \/ /\ "skipped" \in DOMAIN final_report
             /\ ip \in DOMAIN final_report.skipped

\* Every device went through both loops: it has a provisioning result when
\* the transport is http, and a validation result or a skip.
C9_AllProcessed ==
  /\ final_report # NoReport
  /\ final_report.discovered_devices = devices
  /\ \A i \in 1..Len(devices) :
       /\ devices[i].ip \in DOMAIN mqtt_results \cup o_skipped
       /\ o_args.provision_via = "http" => devices[i].ip \in DOMAIN prov_results

\* C9: whatever fails (no serial port, serial or HTTP provisioning, the
\* topic re-query, the broker connection, the validation of any device),
\* main goes through every device and eventually emits the report.
C9_AlwaysReports == <>(o_pc = "done" /\ C9_AllProcessed)

\* A run that reported although provisioning and validation of the first
\* of two devices failed; the second device was still handled.
C9_Witness ==
  /\ o_pc = "done" /\ final_report # NoReport
  /\ Len(devices) = 2
  /\ devices[1].ip \in DOMAIN prov_results /\ ~prov_results[devices[1].ip].ok
  /\ devices[1].ip \in DOMAIN mqtt_results /\ ~mqtt_results[devices[1].ip].ok
  /\ devices[2].ip \in DOMAIN prov_results
  /\ devices[2].ip \in DOMAIN mqtt_results \cup o_skipped

\* The serial ports open right now: the locator's and provision_via_serial's.
C12_OpenPorts ==
  (IF o_open # "closed" THEN 1 ELSE 0) + (IF p_port # "closed" THEN 1 ELSE 0)

\* C12: at most one serial port is open at any time; the locator holds a
\* port only inside its with block and provision_via_serial holds none once
\* it has returned, by whichever path (normal end, an exception in a write
\* or a read, a port that does not match); no port is open once the
\* provisioning phase is over.
C12_SerialPortsClosed ==
  /\ C12_OpenPorts <= 1
  /\ o_pc # "probe" => o_open = "closed"
  /\ p_pc = "done" => p_port = "closed"
  /\ o_pc \in {"validate", "report", "done"} => C12_OpenPorts = 0

\* The first port did not match, the second did, and a read failed in the
\* middle of the provisioning; phase 1 is over.
C12_Witness ==
  /\ o_pc = "validate" /\ found_port = "/dev/ttyUSB1"
  /\ p_pc = "done" /\ p_fault.kind = "read_raises" /\ p_fault.at >= 2
  /\ C12_OpenPorts = 0

\* C16, as stated: every record of the device list is tagged scan, manual
\* or serial-rediscovery; records of a sweep are tagged scan, the record of
\* the address the user gave is tagged manual.
C16_TagsAsSpecified ==
  \A i \in 1..Len(devices) :
    /\ devices[i].discovered_by \in {"scan", "manual", "serial-rediscovery"}
    /\ devices[i].ip # o_args.target_ip => devices[i].discovered_by = "scan"

\* The record main built from --target-ip (not used with serial).
C16_IsManual(d) ==
  /\ o_args.provision_via # "serial"
  /\ o_args.target_ip # "" /\ d.ip = o_args.target_ip

\* C16, amended: every record of the device list is tagged http-probe or
\* manual: manual for the address the user gave, http-probe for every
\* record of a sweep, the sweep after a serial provisioning included.
C16_TagsInCode ==
  \A i \in 1..Len(devices) :
    /\ devices[i].discovered_by \in {"http-probe", "manual"}
    /\ devices[i].discovered_by = "manual" <=> C16_IsManual(devices[i])

\* Two devices found by the sweep that follows a serial provisioning.
C16_Witness ==
  /\ o_args.provision_via = "serial" /\ Len(devices) = 2
  /\ \A i \in 1..2 : devices[i].discovered_by = "http-probe"

C20_ValidationStarted ==
  o_validated # <<>> \/ o_skipped # {} \/ mqtt_results # <<>>

\* C20: with transport http and at least one device, validation starts only
\* after every device has its ProvisionResult (one per address, also after
\* a failed one) and the settle wait is over; while the provisioning loop
\* runs nothing is validated; with transport none nothing is recorded as
\* provisioned.
C20_ProvisionAllThenValidate ==
  /\ (/\ o_args.provision_via = "http" /\ devices # <<>>
      /\ (C20_ValidationStarted \/ o_pc \in {"validate", "report", "done"}))
       => /\ o_waited = HttpSettleWait
          /\ DOMAIN prov_results = {devices[i].ip : i \in 1..Len(devices)}
          /\ \A ip \in DOMAIN prov_results : prov_results[ip].method = "http"
  /\ o_pc = "http_prov" => (~C20_ValidationStarted /\ o_waited = 0)
  /\ o_args.provision_via = "none" => prov_results = <<>>

\* Two devices, provisioning of the first failed, the second was still
\* provisioned, and validation has begun after the wait.
C20_Witness ==
  /\ o_args.provision_via = "http" /\ Len(devices) = 2
  /\ DOMAIN prov_results = {devices[1].ip, devices[2].ip}
  /\ ~prov_results[devices[1].ip].ok /\ prov_results[devices[2].ip].ok
  /\ o_validated # <<>> /\ o_waited = HttpSettleWait

(***************************************************************************)
(* Claims about scan_network (SpecScan).                                   *)
(***************************************************************************)
\* The positions of the result that hold the record of address i.
C13_RecordsOf(i) ==
  {k \in 1..Len(s_result) : s_result[k].ip = HostAddr(i)}

\* C13, as stated: a sweep over N addresses runs N probes, one per address,
\* and its result has a record only for an address that answered 200 with a
\* Status holding a Topic; a Status without Topic gives no record.
C13_RecordOnlyWithTopic ==
  s_pc = "returned" =>
    /\ DOMAIN s_task = 1..s_n
    /\ \A i \in 1..s_n : C13_RecordsOf(i) # {} => s_answer[i] = "topic"

\* C13, amended: a sweep over N addresses runs N probes, one per address,
\* and its result has exactly one record for each address that answered 200
\* with a JSON object holding a Status object, and none for any other; the
\* record carries the Topic of that Status, or the placeholder "unknown"
\* when the Status has no Topic.
C13_RecordIffStatus ==
  s_pc = "returned" =>
    /\ DOMAIN s_task = 1..s_n
    /\ \A i \in 1..s_n :
         IF s_answer[i] \in {"topic", "notopic"}
           THEN /\ Cardinality(C13_RecordsOf(i)) = 1
                /\ \A k \in C13_RecordsOf(i) :
                     s_result[k].topic = IF s_answer[i] = "topic"
                                           THEN TopicOf(HostAddr(i))
                                           ELSE "unknown"
           ELSE C13_RecordsOf(i) = {}

\* One address answered with a Status without Topic and is in the result
\* as "unknown"; another answered 200 without a Status and is not.
C13_Witness ==
  /\ s_pc = "returned" /\ Len(s_result) = 1
  /\ s_result[1].topic = "unknown"
  /\ \E i, j \in 1..s_n : s_answer[i] = "notopic" /\ s_answer[j] = "no_status"

\* C14: in every state of every interleaving the probes that hold a
\* connection are at most `concurrency`, although all tasks exist from the
\* start.
C14_InFlightWithinLimit ==
  Cardinality(InFlight(s_task)) <= s_limit

\* More addresses than connections: the limit is reached and a probe waits.
C14_Witness ==
  /\ s_pc = "gather" /\ s_n > s_limit
  /\ Cardinality(InFlight(s_task)) = s_limit
  /\ \E i \in 1..s_n : s_task[i] = "waiting"

\* The records of the probes that succeeded, in the order of the addresses.
RECURSIVE C19_Succeeded(_)
C19_Succeeded(i) ==
  IF i > s_n THEN <<>>
  ELSE (IF s_answer[i] \in {"topic", "notopic"} THEN s_ret[i] ELSE <<>>)
         \o C19_Succeeded(i + 1)

\* C19: scan_network returns only when every probe has settled; a probe
\* that timed out, was refused, got malformed JSON or no identity key
\* settles with nothing and neither ends nor shortens the sweep; the result
\* is exactly the records of the probes that succeeded.
C19_ReturnsAfterAllSettled ==
  s_pc = "returned" =>
    /\ \A i \in 1..s_n : s_task[i] = "settled" /\ s_answer[i] # "pending"
    /\ s_result = C19_Succeeded(1)
    /\ \A i \in 1..s_n :
         s_answer[i] \notin {"topic", "notopic"} => s_ret[i] = <<>>

\* The first probe timed out, the second got malformed JSON, and the third,
\* which settled after them, is in the result.
C19_Witness ==
  /\ s_pc = "returned" /\ s_n = 3
  /\ s_answer[1] = "timeout" /\ s_answer[2] = "bad_json"
  /\ s_answer[3] = "topic"
  /\ Len(s_result) = 1 /\ s_result[1].ip = HostAddr(3)

=============================================================================
